---- MODULE Spec2Model ----
(***************************************************************************)
(* Model of src/main.py, the ulauncher-gpt extension: the word wrapper     *)
(* wrap_text, the item builder create_items, the request function query,   *)
(* the preference parser SettingsHandler.parse_prefs and the two event     *)
(* listeners, KeywordQueryEventListener and ItemEnterEventListener.        *)
(*                                                                         *)
(* A Python str is a sequence of one-character strings.  A fixed literal   *)
(* of the source that is never measured or split is one element holding    *)
(* the whole literal.                                                      *)
(***************************************************************************)
EXTENDS Integers, Sequences, FiniteSets, TLC

VARIABLES
    w,          \* one call of wrap_text: its arguments and its return value
    ci,         \* one call of create_items: its arguments and its outcome
    prefs,      \* extension.preferences: the host's raw preference strings
    liveInput,  \* the argument now in the host's input box
    events,     \* events sent by the host, not yet handled by a listener
    displayed,  \* the result list the host shows (the last one rendered)
    last        \* what the last run of a listener did

vars == <<w, ci, prefs, liveInput, events, displayed, last>>

-----------------------------------------------------------------------------
(* Bounds of the model *)

MaxLen == 5         \* longest text handed to wrap_text
MaxWidth == 3       \* widest max_w / line_wrap
MaxChoices == 2     \* most choices in one response
MaxQueue == 2       \* most events waiting for a listener

-----------------------------------------------------------------------------
(* Python str operations used by the source *)

\* the characters str.split() and str.strip() treat as whitespace
Whitespace == {" ", "\t", "\n"}

Alphabet == {"a"} \cup Whitespace

\* all texts of at most n characters
TextsUpTo(n) == UNION {[1..k -> Alphabet] : k \in 0..n}

RECURSIVE split_from(_, _, _)
split_from(text, word, words) ==
    IF text = <<>>
    THEN IF word = <<>> THEN words ELSE Append(words, word)
    ELSE IF Head(text) \in Whitespace
         THEN split_from(Tail(text), <<>>,
                         IF word = <<>> THEN words ELSE Append(words, word))
         ELSE split_from(Tail(text), Append(word, Head(text)), words)

\* text.split(): the maximal runs of non-whitespace characters, in order
split(text) == split_from(text, <<>>, <<>>)

RECURSIVE lstrip(_)
lstrip(s) == IF s # <<>> /\ Head(s) \in Whitespace THEN lstrip(Tail(s)) ELSE s

RECURSIVE rstrip(_)
rstrip(s) ==
    IF s # <<>> /\ s[Len(s)] \in Whitespace
    THEN rstrip(SubSeq(s, 1, Len(s) - 1))
    ELSE s

\* a mutant of strip: returns the line as it is
strip_nothing(s) == s

\* s.strip(): s without its leading and trailing whitespace
strip(s) == rstrip(lstrip(s))

RECURSIVE join(_, _)
\* sep.join(lines)
join(sep, lines) ==
    IF lines = <<>> THEN <<>>
    ELSE IF Len(lines) = 1 THEN lines[1]
    ELSE lines[1] \o sep \o join(sep, Tail(lines))

RECURSIVE splitlines_from(_, _, _)
splitlines_from(text, line, lines) ==
    IF text = <<>> THEN Append(lines, line)
    ELSE IF Head(text) = "\n"
         THEN splitlines_from(Tail(text), <<>>, Append(lines, line))
         ELSE splitlines_from(Tail(text), Append(line, Head(text)), lines)

\* text.split('\n'): the lines of a newline-joined text (the inverse of join)
lines_of(text) == splitlines_from(text, <<>>, <<>>)

-----------------------------------------------------------------------------
(* wrap_text, main.py lines 71-82 *)

RECURSIVE wrap_loop(_, _, _, _)
\* the for loop over words and the final append
wrap_loop(words, lines, current_line, max_w) ==
    IF words = <<>>
    THEN Append(lines, strip(current_line))
    ELSE LET word == Head(words) IN
         IF Len(current_line \o word) <= max_w
         THEN wrap_loop(Tail(words), lines, current_line \o <<" ">> \o word, max_w)
         ELSE wrap_loop(Tail(words), Append(lines, strip(current_line)), word, max_w)

wrap_text(text, max_w) ==
    join(<<"\n">>, wrap_loop(split(text), <<>>, <<>>, max_w))

-----------------------------------------------------------------------------
(* Specification of one wrap_text call *)

WrapIdle == [text |-> <<>>, max_w |-> 1, out |-> <<>>, done |-> FALSE]

WrapCall ==
    /\ ~w.done
    /\ w' = [w EXCEPT !.out = wrap_text(w.text, w.max_w), !.done = TRUE]
    /\ UNCHANGED <<ci, prefs, liveInput, events, displayed, last>>

-----------------------------------------------------------------------------
(* Result items and actions *)

CopyToClipboardAction(text) == [type |-> "CopyToClipboardAction", data |-> text]
DoNothingAction == [type |-> "DoNothingAction", data |-> <<>>]
ExtensionCustomAction(data) == [type |-> "ExtensionCustomAction", data |-> data]

\* ExtensionResultItem(icon=EXTENSION_ICON, name=..., description=..., on_enter=...);
\* the description defaults to the empty string
ExtensionResultItem(name, description, on_enter) ==
    [name |-> name, description |-> description, on_enter |-> on_enter]

\* main.py lines 24-28: the placeholder item of the blank prompt
BlankPromptItems ==
    <<ExtensionResultItem(<<"Type in a prompt...">>, <<>>, DoNothingAction)>>

-----------------------------------------------------------------------------
(* What query returns, and what the service can answer *)

\* A choice of the decoded body; has_content: choice['message']['content'] can be read
Choice(has_content, content) == [has_content |-> has_content, content |-> content]

\* requests.Response. shape: "undecodable" (response.json() raises), "object"
\* (a JSON object) or "array" (JSON that is no object). has_choices, has_error,
\* has_message: body['choices'], body['error'], body['error']['message'] can be read
HttpResponse(status, shape, has_choices, choices, has_error, has_message, message) ==
    [kind |-> "Response", status |-> status, shape |-> shape,
     has_choices |-> has_choices, choices |-> choices,
     has_error |-> has_error, has_message |-> has_message, message |-> message,
     items |-> <<>>]

\* main.py lines 24-28: for a blank search term query returns a
\* RenderResultListAction, not a Response
RenderResultListAction(items) ==
    [kind |-> "RenderResultListAction", status |-> "", shape |-> "undecodable",
     has_choices |-> FALSE, choices |-> <<>>,
     has_error |-> FALSE, has_message |-> FALSE, message |-> <<>>,
     items |-> items]

RECURSIVE repr_choices(_)
repr_choices(choices) ==
    IF choices = <<>> THEN <<>>
    ELSE (IF Head(choices).has_content
          THEN <<"{'message': {'content': '">> \o Head(choices).content \o <<"'}}">>
          ELSE <<"{}">>)
         \o (IF Len(choices) > 1 THEN <<", ">> ELSE <<>>)
         \o repr_choices(Tail(choices))

\* str(x) of the value bound to `response` at main.py line 101: the Response
\* object when json() raised, the decoded body once line 91 has rebound it
str_body(r) ==
    IF r.shape = "array" THEN <<"[]">>
    ELSE <<"{">>
         \o (IF r.has_choices
             THEN <<"'choices': [">> \o repr_choices(r.choices) \o <<"]">>
             ELSE <<>>)
         \o (IF r.has_choices /\ r.has_error THEN <<", ">> ELSE <<>>)
         \o (IF r.has_error
             THEN <<"'error': {">>
                  \o (IF r.has_message
                      THEN <<"'message': '">> \o r.message \o <<"'">>
                      ELSE <<>>)
                  \o <<"}">>
             ELSE <<>>)
         \o <<"}">>

str_object(r) ==
    IF r.kind = "Response"
    THEN <<"<Response [">> \o <<r.status>> \o <<"]>">>
    ELSE <<"<RenderResultListAction object>">>

-----------------------------------------------------------------------------
(* create_items, main.py lines 84-116 *)

UnknownError == <<"Unknown error, please check logs for more info">>

\* lines 91-92 succeed: response.json() returns and the body has 'choices'
decodes(response) ==
    /\ response.kind = "Response"
    /\ response.shape = "object"
    /\ response.has_choices

\* line 91 succeeded, so `response` names the decoded body in the handler
rebound(response) == response.kind = "Response" /\ response.shape # "undecodable"

\* a mutant of error_message: the nested message is never read
error_message_unread(response) == UnknownError

\* lines 95-99: errMsg
error_message(response) ==
    IF rebound(response) /\ response.shape = "object"
       /\ response.has_error /\ response.has_message
    THEN response.message
    ELSE UnknownError

\* line 101: str(response) + errMsg
service_error(response) ==
    (IF rebound(response) THEN str_body(response) ELSE str_object(response))
    \o error_message(response)

\* a mutant of choice_items: the items are collected newest first
choice_items_reversed(choices, line_wrap) ==
    [i \in 1..Len(choices) |->
        LET message == wrap_text(choices[Len(choices) + 1 - i].content, line_wrap)
        IN ExtensionResultItem(<<"Assistant">>, message, CopyToClipboardAction(message))]

\* lines 102-108: one item per choice, in the order of the list
choice_items(choices, line_wrap) ==
    [i \in 1..Len(choices) |->
        LET message == wrap_text(choices[i].content, line_wrap)
        IN ExtensionResultItem(<<"Assistant">>, message, CopyToClipboardAction(message))]

\* the value or the exception of a call
Returned(value) == [raised |-> FALSE, exc |-> <<>>, value |-> value]
Raised(exc) == [raised |-> TRUE, exc |-> exc, value |-> <<>>]

create_items(response, line_wrap) ==
    IF ~decodes(response)
    THEN Raised(service_error(response))
    ELSE IF \E i \in 1..Len(response.choices) : ~response.choices[i].has_content
         THEN Raised(<<"'content'">>)     \* KeyError at line 104
         ELSE Returned(choice_items(response.choices, line_wrap))

-----------------------------------------------------------------------------
(* Specification of one create_items call *)

Contents == {<<"a">>, <<"a", " ", "a">>, <<"a", "a", " ", " ", "a">>}

Choices == {Choice(TRUE, c) : c \in Contents} \cup {Choice(FALSE, <<>>)}

ChoiceLists == UNION {[1..k -> Choices] : k \in 0..MaxChoices}

Messages == {<<>>, <<"Incorrect API key provided">>}

Statuses == {"200", "401"}

\* the answers of the service
Responses ==
    {HttpResponse(s, "undecodable", FALSE, <<>>, FALSE, FALSE, <<>>) : s \in Statuses}
    \cup {HttpResponse("200", "array", FALSE, <<>>, FALSE, FALSE, <<>>)}
    \cup {HttpResponse("200", "object", TRUE, cs, FALSE, FALSE, <<>>) : cs \in ChoiceLists}
    \cup {HttpResponse("401", "object", FALSE, <<>>, TRUE, TRUE, m) : m \in Messages}
    \cup {HttpResponse("401", "object", FALSE, <<>>, TRUE, FALSE, <<>>),
          HttpResponse("200", "object", FALSE, <<>>, FALSE, FALSE, <<>>)}

ItemsIdle ==
    [response |-> HttpResponse("200", "array", FALSE, <<>>, FALSE, FALSE, <<>>),
     line_wrap |-> 1, out |-> Returned(<<>>), done |-> FALSE]

CreateItemsCall ==
    /\ ~ci.done
    /\ ci' = [ci EXCEPT !.out = create_items(ci.response, ci.line_wrap), !.done = TRUE]
    /\ UNCHANGED <<w, prefs, liveInput, events, displayed, last>>

-----------------------------------------------------------------------------
(* int() and float() on the raw preference strings *)

Digits == {"0", "1", "2", "3", "4", "5", "6", "7", "8", "9"}

DigitValue(c) ==
    CASE c = "0" -> 0 [] c = "1" -> 1 [] c = "2" -> 2 [] c = "3" -> 3
      [] c = "4" -> 4 [] c = "5" -> 5 [] c = "6" -> 6 [] c = "7" -> 7
      [] c = "8" -> 8 [] c = "9" -> 9

RECURSIVE int_value(_)
int_value(s) ==
    IF s = <<>> THEN 0
    ELSE 10 * int_value(SubSeq(s, 1, Len(s) - 1)) + DigitValue(s[Len(s)])

\* int(raw) succeeds (the raw strings of the model carry no sign and no blanks)
is_int_literal(s) == s # <<>> /\ \A i \in 1..Len(s) : s[i] \in Digits

DotAt(s) == {i \in 1..Len(s) : s[i] = "."}

\* float(raw) succeeds: digits with at most one decimal point
is_float_literal(s) ==
    /\ \A i \in 1..Len(s) : s[i] \in Digits \cup {"."}
    /\ Cardinality(DotAt(s)) <= 1
    /\ \E i \in 1..Len(s) : s[i] \in Digits

\* float(raw), as the decimal num / 10^scale
float_value(s) ==
    IF DotAt(s) = {}
    THEN [num |-> int_value(s), scale |-> 0]
    ELSE LET d == CHOOSE i \in DotAt(s) : TRUE
         IN [num |-> int_value(SubSeq(s, 1, d - 1) \o SubSeq(s, d + 1, Len(s))),
             scale |-> Len(s) - d]

\* str(err) of the ValueError that int() or float() raises
value_error(parser, raw) ==
    (IF parser = "int"
     THEN <<"invalid literal for int() with base 10: '">>
     ELSE <<"could not convert string to float: '">>)
    \o raw \o <<"'">>

-----------------------------------------------------------------------------
(* SettingsHandler.parse_prefs, main.py lines 132-144 *)

\* the converted preferences, in the order the source converts them
Conversions ==
    <<[field |-> "max_tokens", parser |-> "int"],
      [field |-> "frequency_penalty", parser |-> "float"],
      [field |-> "presence_penalty", parser |-> "float"],
      [field |-> "temperature", parser |-> "float"],
      [field |-> "top_p", parser |-> "float"],
      [field |-> "line_wrap", parser |-> "int"],
      [field |-> "wait_before_query", parser |-> "int"]>>

converts(c, preferences) ==
    IF c.parser = "int"
    THEN is_int_literal(preferences[c.field])
    ELSE is_float_literal(preferences[c.field])

DefaultPrefs ==
    [api_key |-> <<"k">>, max_tokens |-> <<"1", "6">>,
     frequency_penalty |-> <<"0">>, presence_penalty |-> <<"0">>,
     temperature |-> <<"0", ".", "5">>, top_p |-> <<"1">>,
     system_prompt |-> <<"sys">>, line_wrap |-> <<"2">>,
     model |-> <<"m">>, wait_before_query |-> <<"0">>]

\* The first conversion that fails raises; a listener reads the attributes
\* only after a parse_prefs that returned, so they are the call's value.
parse_prefs(preferences) ==
    IF \E i \in 1..Len(Conversions) : ~converts(Conversions[i], preferences)
    THEN LET bad == CHOOSE i \in 1..Len(Conversions) :
                       /\ ~converts(Conversions[i], preferences)
                       /\ \A j \in 1..(i - 1) : converts(Conversions[j], preferences)
         IN Raised(value_error(Conversions[bad].parser,
                               preferences[Conversions[bad].field]))
    ELSE Returned(
        [api_key |-> preferences.api_key,
         max_tokens |-> int_value(preferences.max_tokens),
         frequency_penalty |-> float_value(preferences.frequency_penalty),
         presence_penalty |-> float_value(preferences.presence_penalty),
         temperature |-> float_value(preferences.temperature),
         top_p |-> float_value(preferences.top_p),
         system_prompt |-> preferences.system_prompt,
         line_wrap |-> int_value(preferences.line_wrap),
         model |-> preferences.model,
         wait_for_enter |-> int_value(preferences.wait_before_query)])

-----------------------------------------------------------------------------
(* query, main.py lines 18-67 *)

\* what requests.post does with the request: it raises, or returns a Response
Failure(name) ==
    [failure |-> name,
     response |-> HttpResponse("", "undecodable", FALSE, <<>>, FALSE, FALSE, <<>>)]
Answer(response) == [failure |-> "", response |-> response]

\* no request was posted in the run
NoReply == Failure("not sent")

\* lines 31-54: the headers and the body of the POST
Request(search_term, s) ==
    [authorization |-> <<"Bearer ">> \o s.api_key,
     system |-> s.system_prompt, user |-> search_term,
     temperature |-> s.temperature, max_tokens |-> s.max_tokens,
     top_p |-> s.top_p, frequency_penalty |-> s.frequency_penalty,
     presence_penalty |-> s.presence_penalty, model |-> s.model]

\* a mutant of query: the blank search term is posted like any other
query_unguarded(search_term, s, reply) ==
    IF reply.failure # ""
    THEN [raised |-> TRUE, exc |-> <<reply.failure>>,
          sent |-> <<Request(search_term, s)>>, value |-> reply.response]
    ELSE [raised |-> FALSE, exc |-> <<>>,
          sent |-> <<Request(search_term, s)>>, value |-> reply.response]

\* sent: the requests posted by the call
query(search_term, s, reply) ==
    IF search_term = <<>>                                    \* line 22
    THEN [raised |-> FALSE, exc |-> <<>>, sent |-> <<>>,
          value |-> RenderResultListAction(BlankPromptItems)]
    ELSE IF reply.failure # ""                               \* line 61 raises
         THEN [raised |-> TRUE, exc |-> <<reply.failure>>,
               sent |-> <<Request(search_term, s)>>, value |-> reply.response]
         ELSE [raised |-> FALSE, exc |-> <<>>,
               sent |-> <<Request(search_term, s)>>, value |-> reply.response]

-----------------------------------------------------------------------------
(* The events of the host *)

NoArgument == [is_none |-> TRUE, text |-> <<>>]
Argument(text) == [is_none |-> FALSE, text |-> text]

\* str(event.get_argument()), line 209
str_argument(argument) ==
    IF argument.is_none THEN <<"N", "o", "n", "e">> ELSE argument.text

KeywordQueryEvent(argument) ==
    [type |-> "KeywordQueryEvent", argument |-> argument, data |-> <<>>]
ItemEnterEvent(data) ==
    [type |-> "ItemEnterEvent", argument |-> NoArgument, data |-> data]

\* the run of a listener: what it read, what it posted, how it ended
Run(event, preferences, parsed, wait, search_term, q, reply, outcome, items, exc) ==
    [handler |-> event.type, event |-> event, prefs |-> preferences,
     prefs_ok |-> parsed, wait_for_enter |-> wait, search_term |-> search_term,
     sent |-> q.sent, reply |-> IF q.sent = <<>> THEN NoReply ELSE reply,
     outcome |-> outcome, items |-> items, exc |-> exc]

NotQueried == [raised |-> FALSE, exc |-> <<>>, sent |-> <<>>, value |-> <<>>]

ErrorItems(title, err) ==
    <<ExtensionResultItem(title \o err, <<>>, CopyToClipboardAction(err))>>

-----------------------------------------------------------------------------
(* ItemEnterEventListener.on_event, main.py lines 148-185 *)

ItemEnter_on_event(event, preferences, reply) ==
    LET p == parse_prefs(preferences) IN
    IF p.raised                                              \* lines 150-160
    THEN Run(event, preferences, FALSE, FALSE, <<>>, NotQueried, reply, "returned",
             ErrorItems(<<"Failed to parse preferences: ">>, p.exc), <<>>)
    ELSE LET s == p.value
             search_term == event.data                       \* line 162
             q == query(search_term, s, reply)
         IN IF q.raised                                      \* lines 176-182
            THEN Run(event, preferences, TRUE, s.wait_for_enter # 0, search_term, q,
                     reply, "returned", ErrorItems(<<"Request failed: ">>, q.exc), <<>>)
            ELSE LET c == create_items(q.value, s.line_wrap)  \* line 184
                 IN IF c.raised
                    THEN Run(event, preferences, TRUE, s.wait_for_enter # 0,
                             search_term, q, reply, "raised", <<>>, c.exc)
                    ELSE Run(event, preferences, TRUE, s.wait_for_enter # 0,
                             search_term, q, reply, "returned", c.value, <<>>)

-----------------------------------------------------------------------------
(* KeywordQueryEventListener.on_event, main.py lines 195-240 *)

KeywordQuery_on_event(event, preferences, reply) ==
    LET p == parse_prefs(preferences) IN
    IF p.raised                                              \* lines 197-207
    THEN Run(event, preferences, FALSE, FALSE, <<>>, NotQueried, reply, "returned",
             ErrorItems(<<"Failed to parse preferences: ">>, p.exc), <<>>)
    ELSE LET s == p.value
             search_term == str_argument(event.argument)     \* line 209
         IN IF s.wait_for_enter # 0                          \* lines 211-217
            THEN Run(event, preferences, TRUE, TRUE, search_term, NotQueried,
                     reply, "returned",
                     <<ExtensionResultItem(
                         <<"Waiting until Enter is pressed: ">> \o search_term,
                         <<>>, ExtensionCustomAction(search_term))>>,
                     <<>>)
            ELSE LET q == query(search_term, s, reply) IN
                 IF q.raised                                 \* lines 231-237
                 THEN Run(event, preferences, TRUE, FALSE, search_term, q,
                          reply, "returned", ErrorItems(<<"Request failed: ">>, q.exc), <<>>)
                 ELSE LET c == create_items(q.value, s.line_wrap)  \* line 239
                      IN IF c.raised
                         THEN Run(event, preferences, TRUE, FALSE, search_term, q,
                                  reply, "raised", <<>>, c.exc)
                         ELSE Run(event, preferences, TRUE, FALSE, search_term, q,
                                  reply, "returned", c.value, <<>>)

-----------------------------------------------------------------------------
(* The host and the service: the inputs of the listeners *)

Arguments == {NoArgument, Argument(<<>>), Argument(<<"a">>), Argument(<<"a", " ", "a">>)}

\* the preference values the user switches between
PrefChoices ==
    [max_tokens |-> {<<"1", "6">>, <<"3", "2">>, <<"x">>},
     wait_before_query |-> {<<"0">>, <<"1">>}]

\* what the service does with a posted request
Replies ==
    {Failure("ReadTimeout"), Failure("ConnectionError"),
     Answer(HttpResponse("200", "undecodable", FALSE, <<>>, FALSE, FALSE, <<>>)),
     Answer(HttpResponse("401", "object", FALSE, <<>>, TRUE, TRUE,
                         <<"Incorrect API key provided">>)),
     Answer(HttpResponse("200", "object", TRUE,
                         <<Choice(TRUE, <<"a", "a", " ", "a">>)>>, FALSE, FALSE, <<>>))}

NoRun ==
    [handler |-> "none", event |-> ItemEnterEvent(<<>>), prefs |-> DefaultPrefs,
     prefs_ok |-> FALSE, wait_for_enter |-> FALSE, search_term |-> <<>>,
     sent |-> <<>>, reply |-> NoReply,
     outcome |-> "returned", items |-> <<>>, exc |-> <<>>]

\* the user edits the input box: the host sends a KeywordQueryEvent
UserTypes ==
    /\ Len(events) < MaxQueue
    /\ \E argument \in Arguments :
        /\ liveInput' = argument
        /\ events' = Append(events, KeywordQueryEvent(argument))
    /\ UNCHANGED <<w, ci, prefs, displayed, last>>

\* the user presses Enter on a shown item that carries an ExtensionCustomAction:
\* the host sends an ItemEnterEvent with the data of the action
UserPressesEnter ==
    /\ Len(events) < MaxQueue
    /\ \E i \in 1..Len(displayed) :
        /\ displayed[i].on_enter.type = "ExtensionCustomAction"
        /\ events' = Append(events, ItemEnterEvent(displayed[i].on_enter.data))
    /\ UNCHANGED <<w, ci, prefs, liveInput, displayed, last>>

\* the user edits a preference
UserChangesPrefs ==
    /\ \E field \in DOMAIN PrefChoices : \E raw \in PrefChoices[field] :
        /\ raw # prefs[field]
        /\ prefs' = [prefs EXCEPT ![field] = raw]
    /\ UNCHANGED <<w, ci, liveInput, events, displayed, last>>

\* a run that returns is rendered; a run that raises renders nothing
Handled(run) ==
    /\ events' = Tail(events)
    /\ last' = run
    /\ displayed' = IF run.outcome = "returned" THEN run.items ELSE displayed
    /\ UNCHANGED <<w, ci, prefs, liveInput>>

HandleKeywordQuery ==
    /\ events # <<>>
    /\ Head(events).type = "KeywordQueryEvent"
    /\ \E reply \in Replies : Handled(KeywordQuery_on_event(Head(events), prefs, reply))

HandleItemEnter ==
    /\ events # <<>>
    /\ Head(events).type = "ItemEnterEvent"
    /\ \E reply \in Replies : Handled(ItemEnter_on_event(Head(events), prefs, reply))

-----------------------------------------------------------------------------
(* Specifications *)

\* the extension after GPTExtension.__init__
Init ==
    /\ w = WrapIdle
    /\ ci = ItemsIdle
    /\ prefs = DefaultPrefs
    /\ liveInput = NoArgument
    /\ events = <<>>
    /\ displayed = <<>>
    /\ last = NoRun

Next ==
    \/ UserTypes
    \/ UserPressesEnter
    \/ UserChangesPrefs
    \/ HandleKeywordQuery
    \/ HandleItemEnter

Spec == Init /\ [][Next]_vars

\* one call of wrap_text on any text and width
InitWrap ==
    /\ w \in [text : TextsUpTo(MaxLen), max_w : 1..MaxWidth, out : {<<>>}, done : {FALSE}]
    /\ ci = ItemsIdle
    /\ prefs = DefaultPrefs
    /\ liveInput = NoArgument
    /\ events = <<>>
    /\ displayed = <<>>
    /\ last = NoRun

NextWrap == WrapCall

SpecWrap == InitWrap /\ [][NextWrap]_vars

\* one call of create_items on any answer of the service
InitItems ==
    /\ w = WrapIdle
    /\ ci \in [response : Responses, line_wrap : 1..MaxWidth,
               out : {Returned(<<>>)}, done : {FALSE}]
    /\ prefs = DefaultPrefs
    /\ liveInput = NoArgument
    /\ events = <<>>
    /\ displayed = <<>>
    /\ last = NoRun

NextItems == CreateItemsCall

SpecItems == InitItems /\ [][NextItems]_vars

-----------------------------------------------------------------------------
(* Properties of the listeners, under Spec *)

HandlerRan == last.handler # "none"

\* the preferences the run read all convert
Resolves(preferences) ==
    \A i \in 1..Len(Conversions) : converts(Conversions[i], preferences)

\* the wait-for-confirmation flag of the preferences the run read
WaitFlag(preferences) == int_value(preferences.wait_before_query) # 0

\* the text a run hands to query as the user text
UserText(event) ==
    IF event.type = "KeywordQueryEvent"
    THEN str_argument(event.argument)
    ELSE event.data

\* what the user had typed when the host sent the event
TypedText(argument) == IF argument.is_none THEN <<>> ELSE argument.text

PrefsFailed == HandlerRan /\ ~Resolves(last.prefs)
NetworkFailed == last.sent # <<>> /\ last.reply.failure # ""
ServiceFailed ==
    /\ last.sent # <<>>
    /\ last.reply.failure = ""
    /\ (last.reply.response.shape # "object" \/ ~last.reply.response.has_choices)

\* one item whose title ends with the error text and whose action copies it
IsErrorItem(items) ==
    /\ Len(items) = 1
    /\ items[1].on_enter.type = "CopyToClipboardAction"
    /\ items[1].on_enter.data # <<>>
    /\ Len(items[1].name) > Len(items[1].on_enter.data)
    /\ SubSeq(items[1].name,
              Len(items[1].name) - Len(items[1].on_enter.data) + 1,
              Len(items[1].name)) = items[1].on_enter.data

\* C1: a run in which the preferences do not parse, the network call fails, or
\* the response cannot be decoded or lacks 'choices' returns exactly one error
\* item (title naming the failure, action copying the error text) and does not
\* end with an exception.
C1_FailuresRecovered ==
    (PrefsFailed \/ NetworkFailed \/ ServiceFailed)
        => last.outcome = "returned" /\ IsErrorItem(last.items)

\* C2: a run whose preferences resolve, whose dispatch is not deferred and
\* whose user text is empty returns exactly the placeholder item
\* 'Type in a prompt...' with a do-nothing action.
C2_BlankInputPlaceholder ==
    (/\ HandlerRan
     /\ Resolves(last.prefs)
     /\ (last.handler = "ItemEnterEvent" \/ ~WaitFlag(last.prefs))
     /\ UserText(last.event) = <<>>)
        => last.outcome = "returned" /\ last.items = BlankPromptItems

\* C3: a run posts a request only if its preferences resolved, its user text
\* is not empty and, with the wait flag set, it is the run of the confirmation
\* event; and a run posts at most one request.
C3_DispatchGuard ==
    /\ Len(last.sent) <= 1
    /\ last.sent # <<>> =>
        /\ Resolves(last.prefs)
        /\ UserText(last.event) # <<>>
        /\ WaitFlag(last.prefs) => last.handler = "ItemEnterEvent"

\* a confirmation posted a request while the flag was set, and a keyword
\* query was deferred
C3_Witness ==
    /\ last.handler = "ItemEnterEvent"
    /\ last.sent # <<>>
    /\ WaitFlag(last.prefs)

\* the generation parameters of a request are those of the preferences read
FreshParameters(request, preferences) ==
    /\ request.max_tokens = int_value(preferences.max_tokens)
    /\ request.temperature = float_value(preferences.temperature)
    /\ request.top_p = float_value(preferences.top_p)
    /\ request.frequency_penalty = float_value(preferences.frequency_penalty)
    /\ request.presence_penalty = float_value(preferences.presence_penalty)
    /\ request.model = preferences.model
    /\ request.system = preferences.system_prompt

\* C9: with the wait flag set a keyword query returns exactly one item whose
\* action payload is the text typed at that moment; a confirmation posts that
\* payload as the user turn, whatever was typed in between, with the
\* generation parameters of the preferences read at confirmation.
C9_DeferredConfirmation ==
    /\ (last.handler = "KeywordQueryEvent" /\ Resolves(last.prefs)
        /\ WaitFlag(last.prefs))
        => /\ last.outcome = "returned"
           /\ Len(last.items) = 1
           /\ last.items[1].on_enter
                = ExtensionCustomAction(TypedText(last.event.argument))
    /\ (last.handler = "ItemEnterEvent" /\ last.sent # <<>>)
        => /\ last.sent[1].user = last.event.data
           /\ FreshParameters(last.sent[1], last.prefs)

\* The second phase of C9 alone: the confirmation replays the payload, not the
\* live input, with fresh parameters.
ConfirmationReplaysPayload ==
    (last.handler = "ItemEnterEvent" /\ Resolves(last.prefs)
     /\ last.event.data # <<>>)
        => /\ Len(last.sent) = 1
           /\ last.sent[1].user = last.event.data
           /\ FreshParameters(last.sent[1], last.prefs)

\* a confirmation posted a payload that was no longer the live input, under
\* preferences changed since the start
ConfirmationReplaysPayload_Witness ==
    /\ last.handler = "ItemEnterEvent"
    /\ last.sent # <<>>
    /\ TypedText(liveInput) # last.event.data
    /\ last.prefs.max_tokens # DefaultPrefs.max_tokens

\* C10: a keyword query without an argument (None) has the empty user text:
\* with the wait flag off no request is posted, with the flag on the payload
\* of the deferred item is the empty text.
C10_AbsentArgumentIsBlank ==
    (/\ last.handler = "KeywordQueryEvent"
     /\ last.event.argument.is_none
     /\ Resolves(last.prefs))
        => /\ last.sent = <<>>
           /\ WaitFlag(last.prefs) =>
                /\ Len(last.items) = 1
                /\ last.items[1].on_enter = ExtensionCustomAction(<<>>)

-----------------------------------------------------------------------------
(* Properties of wrap_text, under SpecWrap *)

Tokens(text) == split(text)

\* C4: every line of wrap(text, maxWidth) that holds two or more tokens is at
\* most maxWidth long, the first line and the later ones alike.
C4_WidthBound ==
    w.done =>
        \A i \in 1..Len(lines_of(w.out)) :
            LET line == lines_of(w.out)[i] IN
            Len(Tokens(line)) >= 2 => Len(line) <= w.max_w

\* C5: a token longer than maxWidth stands alone on its line with no extra
\* line: a text that is one token longer than maxWidth is returned as it is,
\* and a text with a token in it yields no empty line.
C5_OversizedToken ==
    w.done =>
        /\ (Tokens(w.text) = <<w.text>> /\ Len(w.text) > w.max_w) => w.out = w.text
        /\ Tokens(w.text) # <<>> =>
              \A i \in 1..Len(lines_of(w.out)) : lines_of(w.out)[i] # <<>>

NoNewline(text) == \A i \in 1..Len(text) : text[i] # "\n"

\* C6 as stated: wrap(text, N) = text for every text without a newline and
\* with len(text) <= N, leading, trailing and repeated spaces included.
C6_IdentityOnShortText ==
    (w.done /\ NoNewline(w.text) /\ Len(w.text) <= w.max_w) => w.out = w.text

\* the only whitespace of the text is single spaces between its tokens
SingleSpaced(text) ==
    \A i \in 1..Len(text) :
        text[i] \in Whitespace =>
            /\ text[i] = " "
            /\ 1 < i /\ i < Len(text)
            /\ text[i + 1] \notin Whitespace

\* C6 amended: wrap(text, N) = text for every text with len(text) <= N whose
\* only whitespace is single spaces between tokens (the empty text included).
C6_IdentityOnSingleSpacedText ==
    (w.done /\ SingleSpaced(w.text) /\ Len(w.text) <= w.max_w) => w.out = w.text

\* wrap was applied to a short text of two tokens
C6_Witness ==
    /\ w.done
    /\ SingleSpaced(w.text)
    /\ Len(w.text) <= w.max_w
    /\ Len(Tokens(w.text)) >= 2

-----------------------------------------------------------------------------
(* Properties of create_items, under SpecItems *)

HasChoices(response) ==
    response.kind = "Response" /\ response.shape = "object" /\ response.has_choices

\* C7: for a decoded response whose choices all have message.content,
\* create_items returns one item per choice, in the order of the list,
\* titled 'Assistant', with the wrapped content as body and as the text its
\* action copies.
C7_OneItemPerChoice ==
    (/\ ci.done
     /\ HasChoices(ci.response)
     /\ \A i \in 1..Len(ci.response.choices) : ci.response.choices[i].has_content)
        => /\ ~ci.out.raised
           /\ Len(ci.out.value) = Len(ci.response.choices)
           /\ \A i \in 1..Len(ci.response.choices) :
                LET body == wrap_text(ci.response.choices[i].content, ci.line_wrap)
                IN ci.out.value[i] =
                     [name |-> <<"Assistant">>, description |-> body,
                      on_enter |-> [type |-> "CopyToClipboardAction", data |-> body]]

\* two choices with different contents, one of them wrapped onto two lines
C7_Witness ==
    /\ ci.done
    /\ ~ci.out.raised
    /\ Len(ci.response.choices) >= 2
    /\ Len(ci.out.value) = Len(ci.response.choices)
    /\ ci.out.value[1].description # ci.out.value[2].description
    /\ \E i \in 1..Len(ci.out.value) : ~NoNewline(ci.out.value[i].description)

\* C8: for a response that cannot be decoded or has no 'choices',
\* create_items raises an error whose text is the representation of the
\* response followed by the body's error.message when that can be read and by
\* 'Unknown error, please check logs for more info' otherwise; no item is made.
C8_ServiceErrorMessage ==
    (ci.done /\ ci.response.kind = "Response" /\ ~HasChoices(ci.response))
        => /\ ci.out.raised
           /\ ci.out.value = <<>>
           /\ ci.out.exc =
                (IF ci.response.shape = "undecodable"
                 THEN str_object(ci.response)
                 ELSE str_body(ci.response))
                \o (IF /\ ci.response.shape = "object"
                       /\ ci.response.has_error
                       /\ ci.response.has_message
                    THEN ci.response.message
                    ELSE UnknownError)

\* a body without 'choices' whose error.message was read
C8_Witness ==
    /\ ci.done
    /\ ci.out.raised
    /\ ci.response.shape = "object"
    /\ ~ci.response.has_choices
    /\ ci.response.has_message
    /\ ci.response.message # <<>>

====
